---- MODULE Spec2Model ----
(***************************************************************************)
(* Model of the admission-control middleware of ultimate-hono               *)
(* (src/src/middleware/rate-limit.middleware.ts): the fixed-window request  *)
(* limiter with its process-local counter map, its Redis-backed counter,    *)
(* and the per-call fallback from the second to the first.                  *)
(*                                                                          *)
(* A request is a "slot" that walks through the middleware.  JavaScript     *)
(* runs one callback at a time, so a slot's steps are the stretches of code *)
(* between two awaits; any interleaving of the steps of different slots is  *)
(* allowed.  Redis commands issued in one stretch (one Promise.all, or one  *)
(* set) travel on the limiter's single connection and are executed by the   *)
(* server back to back, in issue order.                                     *)
(*                                                                          *)
(* Times are milliseconds as returned by Date.now().  Values stored in      *)
(* Redis are decimal strings of non-negative integers in the code           *)
(* (String(n) on write, parseInt on read); the model stores the integer.    *)
(***************************************************************************)
EXTENDS Integers, FiniteSets, Sequences, TLC

\* ---------------------------------------------------------------- bounds
MaxTicks == 3          \* advances of the clock in one run
MaxSlots == 2          \* requests in flight at the same time
MaxTotal == 3          \* requests issued in one run
\* the same three in the runs where both stores decide
MaxMixedTicks == 2
MaxMixedSlots == 1
MaxMixed == 2
MaxRegTicks == 4       \* advances of the clock in a run of the registry
MaxJobs == 3           \* jobs enqueued in one run

\* ------------------------------------------------------------- constants
MsPerSec == 1000       \* Math.ceil(windowMs / 1000): expire() takes seconds
TickMs == MsPerSec \div 2

Nil == -1              \* null / undefined / header not set
NoTTL == -1            \* a Redis entry without time-to-live

\* the keys the key generator returns for the requests of the model; the
\* second one is the first with the suffix of the reset-instant entry
Keys == {"a", "a:reset"}
\* what a key generator from the options returns when it finds nothing to
\* identify the client by
EmptyKey == ""

\* the options the limiter is built with
Configs == { [windowMs |-> TickMs, max |-> 1],
             [windowMs |-> MsPerSec, max |-> 2] }
Slots == 1..MaxSlots

Min(x, y) == IF x < y THEN x ELSE y
Max(x, y) == IF x > y THEN x ELSE y

VARIABLES
    now,            \* Date.now()
    windowMs,       \* options.windowMs
    max,            \* options.max
    redisClient,    \* "null" or "client"
    isReady,        \* redisClient.isReady
    redis,          \* the Redis keyspace: key -> [val, exp]
    inMemoryStore,  \* the module-level Map: key -> [count, resetTime]
    req,            \* per slot: the locals of an invocation waiting for Redis
    issued,         \* number of requests started so far
    last,           \* the decision taken by the step that led here, if any
    winLocal,       \* history: per key, the current local-path window
    winRedis,       \* history: per key, the current Redis-path window
    fellBack,       \* history: the catch block has run
    refStore,       \* the Map of a limiter built without useRedis that is
                    \* handed the same local-path calls
    useRedis,       \* options.useRedis
    redisUrl,       \* env.REDIS_URL, NoUrl when it is not set
    services,       \* ServiceRegistry.services: id -> lastHeartbeat
    regUseRedis,    \* ServiceRegistry.useRedis
    regReady,       \* ServiceRegistry.redisClient.isReady
    regHash,        \* the Redis hash 'services': id -> lastHeartbeat
    regLast,        \* the registry call made by the step that led here
    beat,           \* history: per id, the time of its latest register or
                    \* heartbeat call while none was more than
                    \* StaleThreshold after the one before, else Nil
    qKind,          \* "memory": InMemoryQueue, "redis": RedisQueue
    qList,          \* InMemoryQueue.queue, or the Redis list queue:<name>
    processing,     \* the queue's processing flag
    handler,        \* the queue's handler, "null" before process()
    interval,       \* the queue's timer is armed
    connected,      \* RedisQueue.connected
    calls,          \* the activations of processNext that are waiting
    handled,        \* history: the ids of the jobs passed to a handler
    enq,            \* history: the number of jobs enqueued
    failedJobs      \* history: the ids of the jobs whose handler failed

vars == <<now, windowMs, max, redisClient, isReady, redis, inMemoryStore,
          req, issued, last, winLocal, winRedis, fellBack, refStore,
          useRedis, redisUrl,
          services, regUseRedis, regReady, regHash, regLast, beat,
          qKind, qList, processing, handler, interval, connected, calls,
          handled, enq, failedJobs>>

\* ------------------------------------------------------------ map helpers
MapSet(m, k, v) == [x \in DOMAIN m \cup {k} |-> IF x = k THEN v ELSE m[x]]
MapDel(m, ks) == [x \in DOMAIN m \ ks |-> m[x]]
EmptyMap == [x \in {} |-> 0]

NoHdr == [limit |-> Nil, remaining |-> Nil, reset |-> Nil]
Hdr(l, r, t) == [limit |-> l, remaining |-> r, reset |-> t]

IdleReq == [pc |-> "idle", key |-> "", now |-> Nil, count |-> Nil,
            stored |-> Nil, resetTime |-> 0, remaining |-> 0, wok |-> TRUE,
            afterFail |-> FALSE]

\* path: the store that decided; admitted: next() was called, otherwise
\* handler(); hdr: the X-RateLimit-* headers on the context; failed: the
\* decision came from the catch block; ord: the request's rank in its
\* window; prev: the local count found for the key; ref*: what the limiter
\* without useRedis decided; nexts, handlers: the calls of next() and of
\* handler() made for the request
NoLast == [path |-> "none", key |-> "", now |-> Nil, admitted |-> FALSE,
           hdr |-> NoHdr, failed |-> FALSE, ord |-> 0, prev |-> 0,
           refAdmitted |-> FALSE, refHdr |-> NoHdr,
           nexts |-> 0, handlers |-> 0]

\* ------------------------------------------------- inMemoryRateLimit (pure)
\* a sweep's test that finds nothing expired
SweepNone(t, data) == FALSE

\* line 132: the sweep's test
SweepExpired(t, data) == t > data.resetTime

\* a call that leaves the sweep out
SweepSkipped(store, t) == store

\* a sweep that empties the Map
SweepAll(store, t) == MapDel(store, DOMAIN store)

\* lines 131-135: delete every expired record
Sweep(store, t) ==
    MapDel(store, {k \in DOMAIN store : SweepExpired(t, store[k])})

\* line 154
WindowExpired(t, data) == t > data.resetTime

\* a first record that expires later than the reset instant reported
FirstRecordLate(t, w) == [count |-> 1, resetTime |-> t + w + 1]

\* lines 142-145 and 156-159
FirstRecord(t, w) == [count |-> 1, resetTime |-> t + w]

\* a new window opened without a header being set
FirstHdrUnset(mx, t, w) == NoHdr

\* the headers of a new window announcing the full quota
FirstHdrFull(mx, t, w) == Hdr(mx, mx, t + w)

\* lines 147-149 and 161-163
FirstHdr(mx, t, w) == Hdr(mx, mx - 1, t + w)

\* the limit test letting one request too many through
ExceededOffByOne(count, mx) == count > mx + 1

\* line 172
Exceeded(count, mx) == count > mx

\* the remaining count taken before the increment
RemainingOffByOne(mx, count) == Max(0, mx - count + 1)

\* line 178
Remaining(mx, count) == Max(0, mx - count)

\* lines 128-182, up to the call of next() or handler(): the new store, the
\* decision and the headers set on the context
InMemoryRateLimit(store, key, w, mx, t) ==
    LET swept == Sweep(store, t)
    IN  IF key \notin DOMAIN swept
        THEN [store |-> MapSet(swept, key, FirstRecord(t, w)),
              admitted |-> TRUE, hdr |-> FirstHdr(mx, t, w)]
        ELSE IF WindowExpired(t, swept[key])
        THEN [store |-> MapSet(swept, key, FirstRecord(t, w)),
              admitted |-> TRUE, hdr |-> FirstHdr(mx, t, w)]
        ELSE LET data == [swept[key] EXCEPT !.count = @ + 1]
             IN  IF Exceeded(data.count, mx)
                 THEN [store |-> MapSet(swept, key, data), admitted |-> FALSE,
                       hdr |-> NoHdr]
                 ELSE [store |-> MapSet(swept, key, data), admitted |-> TRUE,
                       hdr |-> Hdr(mx, Remaining(mx, data.count),
                                   data.resetTime)]

\* ---------------------------------------------------------------- Redis
\* GET: the value, or null
RGet(store, k) == IF k \in DOMAIN store THEN store[k].val ELSE Nil

\* SET without options replaces the value and drops the time-to-live;
\* EXPIRE of a missing key does nothing
ApplyCmd(store, c, t) ==
    IF c.op = "set"
    THEN MapSet(store, c.key, [val |-> c.arg, exp |-> NoTTL])
    ELSE IF c.key \in DOMAIN store
         THEN [store EXCEPT ![c.key].exp = t + c.arg * MsPerSec]
         ELSE store

\* the first n commands of a batch reach the server
RECURSIVE ApplyPrefix(_, _, _, _)
ApplyPrefix(store, cmds, n, t) ==
    IF n = 0 THEN store
    ELSE ApplyCmd(ApplyPrefix(store, cmds, n - 1, t), cmds[n], t)

\* the server drops the entries whose time-to-live has run out
Purge(store, t) ==
    MapDel(store, {k \in DOMAIN store :
                     store[k].exp # NoTTL /\ store[k].exp <= t})

\* ------------------------------------------------ rateLimit, Redis branch
\* line 69
ResetKey(key) == key \o ":reset"

\* line 77
ParseResetTime(stored, t, w) == IF stored # Nil THEN stored ELSE t + w

\* line 79
RedisExpired(t, resetTime) == t > resetTime

\* lines 84-85: Math.ceil(windowMs / 1000)
TtlSeconds(w) == (w + MsPerSec - 1) \div MsPerSec

\* lines 81-86
ResetCmds(key, t, w) ==
    << [op |-> "set", key |-> key, arg |-> 1],
       [op |-> "set", key |-> ResetKey(key), arg |-> t + w],
       [op |-> "expire", key |-> key, arg |-> TtlSeconds(w)],
       [op |-> "expire", key |-> ResetKey(key), arg |-> TtlSeconds(w)] >>

\* line 90
NewCount(count) == IF count # Nil THEN count + 1 ELSE 1

\* line 98
IncrCmds(key, newCount) == << [op |-> "set", key |-> key, arg |-> newCount] >>

\* ------------------------------------------------------- history windows
\* A window of a key opens with the first request whose time lies after the
\* previous window's reset instant and lasts windowMs.  The history counts,
\* as they are decided, the requests of the current window and those of
\* them that were admitted.
NoWin == [start |-> Nil, reqs |-> 0, admits |-> 0]

\* a request taken at time t
Arrive(win, t, w) ==
    IF win.start = Nil \/ t > win.start + w
    THEN [start |-> t, reqs |-> 1, admits |-> 0]
    ELSE [win EXCEPT !.reqs = @ + 1]

\* the request taken at time t is admitted
Admit(win, t) ==
    IF t >= win.start THEN [win EXCEPT !.admits = @ + 1] ELSE win

\* a request taken at time t is decided
Count(win, t, w, adm) ==
    IF adm THEN Admit(Arrive(win, t, w), t) ELSE Arrive(win, t, w)

cfg == <<windowMs, max>>

\* the ServiceRegistry
registry == <<services, regUseRedis, regReady, regHash, regLast, beat>>

\* the queue
queues == <<qKind, qList, processing, handler, interval, connected, calls,
            handled, enq, failedJobs>>

\* what no request changes
elsewhere == <<useRedis, redisUrl, registry, queues>>

\* what no call of another component changes
limiter == <<windowMs, max, redisClient, isReady, redis, inMemoryStore, req,
             issued, last, winLocal, winRedis, fellBack, refStore, useRedis,
             redisUrl>>

\* env.REDIS_URL is optional
NoUrl == ""
Url == "redis://redis:6379"

\* lines 47-58: the client exists only under useRedis with REDIS_URL set
CreateClient(use, url) == IF use /\ url # NoUrl THEN "client" ELSE "null"
hist == <<winLocal, winRedis, fellBack, refStore>>

\* ----------------------------------------------------------------- Init
\* ServiceRegistry: ids, the calls' results, part_001 lines 10-26
RegIds == {"s1", "s2"}
NoCall == [op |-> "none", id |-> "", result |-> FALSE, removed |-> {}]

\* no registry in the process
NoRegistry ==
    /\ services = EmptyMap
    /\ regUseRedis = FALSE
    /\ regReady = FALSE
    /\ regHash = EmptyMap
    /\ regLast = NoCall
    /\ beat = [i \in RegIds |-> Nil]

InitLimiter ==
    /\ now = 0
    /\ \E o \in Configs : windowMs = o.windowMs /\ max = o.max
    /\ redis = EmptyMap
    /\ inMemoryStore = EmptyMap
    /\ req = [s \in Slots |-> IdleReq]
    /\ issued = 0
    /\ last = NoLast
    /\ winLocal = [k \in Keys \cup {EmptyKey} |-> NoWin]
    /\ winRedis = [k \in Keys \cup {EmptyKey} |-> NoWin]
    /\ fellBack = FALSE
    /\ refStore = EmptyMap

\* no queue in the process
NoQueue ==
    /\ qKind = "memory"
    /\ qList = <<>>
    /\ processing = FALSE
    /\ handler = "null"
    /\ interval = FALSE
    /\ connected = FALSE
    /\ calls = {}
    /\ handled = <<>>
    /\ enq = 0
    /\ failedJobs = {}

InitCommon ==
    /\ InitLimiter
    /\ NoRegistry
    /\ NoQueue

\* rateLimit({ useRedis: false }), lines 46-58: no client is created
InitLocal ==
    /\ InitCommon
    /\ useRedis = FALSE /\ redisUrl = NoUrl
    /\ redisClient = "null"
    /\ isReady = FALSE

\* rateLimit({ useRedis: true }) with REDIS_URL set, lines 48-54: the client
\* exists and connects in the background
InitRedis ==
    /\ InitCommon
    /\ useRedis = TRUE /\ redisUrl = Url
    /\ redisClient = "client"
    /\ isReady \in BOOLEAN

\* the same, the client being connected and staying so
InitShared ==
    /\ InitCommon
    /\ useRedis = TRUE /\ redisUrl = Url
    /\ redisClient = "client"
    /\ isReady = TRUE

\* rateLimit(options) for any options and environment, lines 22-58: the
\* construction always returns a middleware
InitAny ==
    /\ InitCommon
    /\ useRedis \in BOOLEAN /\ redisUrl \in {NoUrl, Url}
    /\ redisClient = CreateClient(useRedis, redisUrl)
    /\ isReady \in BOOLEAN

\* --------------------------------------------------------------- actions
\* an invocation that has to wait for Redis takes the lowest free slot
FreeSlot(s) ==
    /\ req[s].pc = "idle"
    /\ \A s2 \in Slots : s2 < s => req[s2].pc # "idle"

\* line 107, as run by a limiter built without useRedis
RefLimiter(store, key) == InMemoryRateLimit(store, key, windowMs, max, now)

\* the call inMemoryRateLimit(key, w, mx, c, next, handler) at the current
\* time, through to next() or handler(); nothing follows their return
LocalDecide(key, w, mx, fromCatch) ==
    LET r == InMemoryRateLimit(inMemoryStore, key, w, mx, now)
        ref == RefLimiter(refStore, key)
        win == Count(winLocal[key], now, windowMs, r.admitted)
    IN  /\ inMemoryStore' = r.store
        /\ last' = [path |-> "local", key |-> key, now |-> now,
                    admitted |-> r.admitted, hdr |-> r.hdr,
                    failed |-> fromCatch, ord |-> win.reqs,
                    prev |-> IF key \in DOMAIN inMemoryStore
                             THEN inMemoryStore[key].count ELSE 0,
                    refAdmitted |-> ref.admitted, refHdr |-> ref.hdr,
                    nexts |-> IF r.admitted THEN 1 ELSE 0,
                    handlers |-> IF r.admitted THEN 0 ELSE 1]
        /\ winLocal' = [winLocal EXCEPT ![key] = win]
        /\ refStore' = ref.store
        /\ UNCHANGED winRedis

\* line 65 false, lines 105-108: no client, or client not ready
BeginLocal(key, cap) ==
    /\ issued < cap
    /\ ~(redisClient # "null" /\ isReady)
    /\ issued' = issued + 1
    /\ LocalDecide(key, windowMs, max, FALSE)
    /\ UNCHANGED <<now, cfg, elsewhere, redisClient, isReady, redis, req, fellBack>>

\* line 65 true, lines 68-75: take the time, issue the two reads
BeginRedis(s, key, cap) ==
    /\ FreeSlot(s)
    /\ issued < cap
    /\ redisClient # "null" /\ isReady
    /\ issued' = issued + 1
    /\ req' = [req EXCEPT ![s] =
                 [IdleReq EXCEPT !.pc = "awaitGet", !.key = key, !.now = now,
                                 !.count = RGet(redis, key),
                                 !.stored = RGet(redis, ResetKey(key)),
                                 !.afterFail = fellBack]]
    /\ last' = NoLast
    /\ UNCHANGED <<now, cfg, elsewhere, redisClient, isReady, redis, inMemoryStore, hist>>

\* lines 77-87: the reads answered, the window has expired; of the four
\* commands of the batch the first n reach the server
ResetWindow(s, n) ==
    LET r == req[s]
        resetTime == ParseResetTime(r.stored, r.now, windowMs)
        cmds == ResetCmds(r.key, r.now, windowMs)
    IN  /\ r.pc = "awaitGet"
        /\ RedisExpired(r.now, resetTime)
        /\ n \in 0..Len(cmds)
        /\ redis' = ApplyPrefix(redis, cmds, n, now)
        /\ req' = [req EXCEPT ![s] =
                     [r EXCEPT !.pc = "awaitWrite", !.resetTime = resetTime,
                               !.remaining = max - 1, !.wok = (n = Len(cmds)),
                               !.count = Nil, !.stored = Nil]]
        /\ last' = NoLast
        /\ UNCHANGED <<now, cfg, elsewhere, redisClient, isReady, inMemoryStore, issued,
                       hist>>

\* lines 77-79, 88-96: the reads answered, the window is open, the count
\* exceeds max: the handler answers, no header is set
RejectRedis(s) ==
    LET r == req[s]
        resetTime == ParseResetTime(r.stored, r.now, windowMs)
        newCount == NewCount(r.count)
        win == Count(winRedis[r.key], r.now, windowMs, FALSE)
    IN  /\ r.pc = "awaitGet"
        /\ ~RedisExpired(r.now, resetTime)
        /\ Exceeded(newCount, max)
        /\ req' = [req EXCEPT ![s] = IdleReq]
        /\ last' = [NoLast EXCEPT !.path = "redis", !.key = r.key,
                                  !.now = r.now, !.ord = win.reqs,
                                  !.handlers = 1]
        /\ winRedis' = [winRedis EXCEPT ![r.key] = win]
        /\ UNCHANGED <<now, cfg, elsewhere, redisClient, isReady, redis, inMemoryStore,
                       issued, winLocal, fellBack, refStore>>

\* lines 77-79, 88-98: the reads answered, the window is open, the count is
\* within max: write the new count (n = 1: the set reaches the server)
Increment(s, n) ==
    LET r == req[s]
        resetTime == ParseResetTime(r.stored, r.now, windowMs)
        newCount == NewCount(r.count)
        cmds == IncrCmds(r.key, newCount)
    IN  /\ r.pc = "awaitGet"
        /\ ~RedisExpired(r.now, resetTime)
        /\ ~Exceeded(newCount, max)
        /\ n \in 0..Len(cmds)
        /\ redis' = ApplyPrefix(redis, cmds, n, now)
        /\ req' = [req EXCEPT ![s] =
                     [r EXCEPT !.pc = "awaitWrite", !.resetTime = resetTime,
                               !.remaining = Remaining(max, newCount),
                               !.wok = (n = Len(cmds)),
                               !.count = Nil, !.stored = Nil]]
        /\ last' = NoLast
        /\ UNCHANGED <<now, cfg, elsewhere, redisClient, isReady, inMemoryStore, issued,
                       hist>>

\* lines 110-115: the writes answered; set the headers and call next()
WriteOk(s) ==
    LET r == req[s]
        win == Count(winRedis[r.key], r.now, windowMs, TRUE)
    IN  /\ r.pc = "awaitWrite"
        /\ r.wok
        /\ req' = [req EXCEPT ![s] = IdleReq]
        /\ last' = [NoLast EXCEPT !.path = "redis", !.key = r.key,
                                  !.now = r.now, !.ord = win.reqs,
                                  !.admitted = TRUE, !.nexts = 1,
                                  !.hdr = Hdr(max, r.remaining, r.resetTime)]
        /\ winRedis' = [winRedis EXCEPT ![r.key] = win]
        /\ UNCHANGED <<now, cfg, elsewhere, redisClient, isReady, redis, inMemoryStore,
                       issued, winLocal, fellBack, refStore>>

\* the catch block with the window and the limit exchanged in the call
CatchSwapped(s) ==
    /\ LocalDecide(req[s].key, max, windowMs, TRUE)
    /\ fellBack' = TRUE
    /\ redisClient' = redisClient

\* the catch block giving up the client for good
CatchDemote(s) ==
    /\ LocalDecide(req[s].key, windowMs, max, TRUE)
    /\ fellBack' = TRUE
    /\ redisClient' = "null"

\* the catch block taking the failure for "no request counted yet"
CatchAsZero(s) ==
    LET key == req[s].key
        ref == RefLimiter(refStore, key)
        win == Count(winLocal[key], now, windowMs, TRUE)
    IN  /\ last' = [path |-> "local", key |-> key, now |-> now,
                    admitted |-> TRUE,
                    hdr |-> Hdr(max, max - 1, now + windowMs),
                    failed |-> TRUE, ord |-> win.reqs, prev |-> 0,
                    refAdmitted |-> ref.admitted, refHdr |-> ref.hdr,
                    nexts |-> 1, handlers |-> 0]
        /\ winLocal' = [winLocal EXCEPT ![key] = win]
        /\ refStore' = ref.store
        /\ fellBack' = TRUE
        /\ UNCHANGED <<inMemoryStore, winRedis, redisClient>>

\* lines 100-104: the catch block
Catch(s) ==
    /\ LocalDecide(req[s].key, windowMs, max, TRUE)
    /\ fellBack' = TRUE
    /\ redisClient' = redisClient

\* a read is rejected (network error, timeout, client closed)
GetFail(s) ==
    /\ req[s].pc = "awaitGet"
    /\ Catch(s)
    /\ req' = [req EXCEPT ![s] = IdleReq]
    /\ UNCHANGED <<now, cfg, elsewhere, isReady, redis, issued>>

\* a write is rejected, whether or not the server has executed it
WriteFail(s) ==
    /\ req[s].pc = "awaitWrite"
    /\ Catch(s)
    /\ req' = [req EXCEPT ![s] = IdleReq]
    /\ UNCHANGED <<now, cfg, elsewhere, isReady, redis, issued>>

\* lines 93-95 and 100-103: the count exceeds max and a handler passed in
\* the options throws before it returns; the throw happens inside the try,
\* so the catch block calls inMemoryRateLimit for the same request
HandlerThrows(s) ==
    LET r == req[s]
        resetTime == ParseResetTime(r.stored, r.now, windowMs)
        newCount == NewCount(r.count)
        d == InMemoryRateLimit(inMemoryStore, r.key, windowMs, max, now)
        ref == RefLimiter(refStore, r.key)
        win == Count(winLocal[r.key], now, windowMs, d.admitted)
    IN  /\ r.pc = "awaitGet"
        /\ ~RedisExpired(r.now, resetTime)
        /\ Exceeded(newCount, max)
        /\ inMemoryStore' = d.store
        /\ last' = [path |-> "local", key |-> r.key, now |-> now,
                    admitted |-> d.admitted, hdr |-> d.hdr,
                    failed |-> TRUE, ord |-> win.reqs,
                    prev |-> IF r.key \in DOMAIN inMemoryStore
                             THEN inMemoryStore[r.key].count ELSE 0,
                    refAdmitted |-> ref.admitted, refHdr |-> ref.hdr,
                    nexts |-> IF d.admitted THEN 1 ELSE 0,
                    handlers |-> IF d.admitted THEN 1 ELSE 2]
        /\ winLocal' = [winLocal EXCEPT ![r.key] = win]
        /\ refStore' = ref.store
        /\ fellBack' = TRUE
        /\ req' = [req EXCEPT ![s] = IdleReq]
        /\ UNCHANGED <<now, cfg, elsewhere, redisClient, isReady, redis, issued,
                       winRedis>>

\* lines 72 and 81-98: the call is awaited without a timer; when the reply
\* never comes and the socket reports no error, the promise stays pending
NoAnswer(s) ==
    /\ req[s].pc \in {"awaitGet", "awaitWrite"}
    /\ req' = [req EXCEPT ![s].pc = "pending"]
    /\ last' = NoLast
    /\ UNCHANGED <<now, cfg, elsewhere, redisClient, isReady, redis, inMemoryStore,
                   issued, hist>>

\* lines 22-24: the options of a second rateLimit(...) of the same process
OtherOptions == CHOOSE o \in Configs : <<o.windowMs, o.max>> # cfg

\* lines 105-108 and 120-182 run by the second limiter: its closure has its
\* own windowMs and max, the Map is the one of line 9
OtherLimiter(key, cap) ==
    LET o == OtherOptions
        r == InMemoryRateLimit(inMemoryStore, key, o.windowMs, o.max, now)
    IN  /\ issued < cap
        /\ issued' = issued + 1
        /\ inMemoryStore' = r.store
        /\ last' = NoLast
        /\ UNCHANGED <<now, cfg, elsewhere, redisClient, isReady, redis, req, hist>>

\* the connection is lost / is established again
RedisDown ==
    /\ redisClient # "null" /\ isReady
    /\ isReady' = FALSE
    /\ last' = NoLast
    /\ UNCHANGED <<now, cfg, elsewhere, redisClient, redis, inMemoryStore, req, issued,
                   hist>>

RedisUp ==
    /\ redisClient # "null" /\ ~isReady
    /\ isReady' = TRUE
    /\ last' = NoLast
    /\ UNCHANGED <<now, cfg, elsewhere, redisClient, redis, inMemoryStore, req, issued,
                   hist>>

\* the clock advances; Redis drops what has run out
Tick(cap) ==
    /\ now + TickMs <= cap * TickMs
    /\ now' = now + TickMs
    /\ redis' = Purge(redis, now')
    /\ last' = NoLast
    /\ UNCHANGED <<cfg, elsewhere, redisClient, isReady, inMemoryStore, req, issued,
                   hist>>

\* ------------------------------------------------------- specifications
\* a limiter without useRedis
NextLocal ==
    \/ \E k \in Keys : BeginLocal(k, MaxTotal)
    \/ Tick(MaxTicks)

SpecLocal == InitLocal /\ [][NextLocal]_vars

\* a limiter with useRedis whose store never fails
NextShared ==
    \/ \E s \in Slots, k \in Keys : BeginRedis(s, k, MaxTotal)
    \/ \E s \in Slots : ResetWindow(s, 4)
    \/ \E s \in Slots : RejectRedis(s)
    \/ \E s \in Slots : Increment(s, 1)
    \/ \E s \in Slots : WriteOk(s)
    \/ Tick(MaxTicks)

SpecShared == InitShared /\ [][NextShared]_vars

\* a limiter with useRedis, any availability of the store
NextRedis ==
    \/ \E s \in 1..MaxMixedSlots, k \in Keys : BeginRedis(s, k, MaxMixed)
    \/ \E k \in Keys : BeginLocal(k, MaxMixed)
    \/ \E s \in 1..MaxMixedSlots, n \in 0..4 : ResetWindow(s, n)
    \/ \E s \in 1..MaxMixedSlots : RejectRedis(s)
    \/ \E s \in 1..MaxMixedSlots, n \in 0..1 : Increment(s, n)
    \/ \E s \in 1..MaxMixedSlots : WriteOk(s)
    \/ \E s \in 1..MaxMixedSlots : GetFail(s)
    \/ \E s \in 1..MaxMixedSlots : WriteFail(s)
    \/ RedisDown
    \/ RedisUp
    \/ Tick(MaxMixedTicks)

SpecRedis == InitRedis /\ [][NextRedis]_vars

\* a limiter with useRedis whose store fails on every call
NextFailing ==
    \/ \E s \in Slots, k \in Keys : BeginRedis(s, k, MaxTotal)
    \/ \E k \in Keys : BeginLocal(k, MaxTotal)
    \/ \E s \in Slots : GetFail(s)
    \/ RedisDown
    \/ RedisUp
    \/ Tick(MaxTicks)

SpecFailing == InitRedis /\ [][NextFailing]_vars

\* a limiter with useRedis, its store never failing, and a handler from the
\* options that may throw
NextHandler ==
    \/ NextShared
    \/ \E s \in Slots : HandlerThrows(s)

SpecHandler == InitShared /\ [][NextHandler]_vars

\* the steps the event loop runs for the invocation in slot s once Redis has
\* answered or the client has rejected the call
Resume(s) ==
    \/ ResetWindow(s, 4)
    \/ RejectRedis(s)
    \/ Increment(s, 1)
    \/ WriteOk(s)
    \/ GetFail(s)
    \/ WriteFail(s)

\* a limiter with useRedis whose store answers, fails, or stays silent
NextSilent ==
    \/ \E s \in Slots, k \in Keys : BeginRedis(s, k, MaxTotal)
    \/ \E s \in Slots : Resume(s)
    \/ \E s \in Slots : NoAnswer(s)
    \/ Tick(MaxTicks)

\* every settled promise is resumed by the event loop
SpecSilent ==
    /\ InitShared
    /\ [][NextSilent]_vars
    /\ \A s \in Slots : WF_vars(Resume(s))

\* two limiters without useRedis in one process
NextInstances ==
    \/ \E k \in Keys : BeginLocal(k, MaxTotal)
    \/ \E k \in Keys : OtherLimiter(k, MaxTotal)
    \/ Tick(MaxTicks)

SpecInstances == InitLocal /\ [][NextInstances]_vars

\* a limiter built with any options, its store never failing
NextAny ==
    \/ \E k \in Keys : BeginLocal(k, MaxTotal)
    \/ \E s \in Slots, k \in Keys : BeginRedis(s, k, MaxTotal)
    \/ \E s \in Slots : ResetWindow(s, 4)
    \/ \E s \in Slots : RejectRedis(s)
    \/ \E s \in Slots : Increment(s, 1)
    \/ \E s \in Slots : WriteOk(s)
    \/ Tick(MaxTicks)

SpecAny == InitAny /\ [][NextAny]_vars

\* a limiter built with any options and a key generator that may return the
\* empty string, line 61
NextEmptyKey ==
    \/ \E k \in Keys \cup {EmptyKey} : BeginLocal(k, MaxTotal)
    \/ \E s \in Slots, k \in Keys \cup {EmptyKey} :
          BeginRedis(s, k, MaxTotal)
    \/ \E s \in Slots : ResetWindow(s, 4)
    \/ \E s \in Slots : RejectRedis(s)
    \/ \E s \in Slots : Increment(s, 1)
    \/ \E s \in Slots : WriteOk(s)
    \/ Tick(MaxTicks)

SpecEmptyKey == InitAny /\ [][NextEmptyKey]_vars

\* ------------------------------------------------------- ServiceRegistry
\* part_001 line 121
StaleThreshold == 60000

\* part_001 line 45: the period of the cleanup timer, the step of the clock
CleanupEveryMs == 30000

\* a staleness test that includes the threshold
StaleAtThreshold(t, lastHeartbeat) == t - lastHeartbeat >= StaleThreshold

\* part_001 lines 129 and 136
Stale(t, lastHeartbeat) == t - lastHeartbeat > StaleThreshold

\* part_001 lines 57, 71, 99, 123
RegOnRedis == regUseRedis /\ regReady

\* part_001 lines 98-105: the ids of the services returned
GetServices == IF RegOnRedis THEN DOMAIN regHash ELSE DOMAIN services

\* part_001 lines 28-46: new ServiceRegistry(false)
InitRegistry ==
    /\ InitLimiter
    /\ useRedis = FALSE /\ redisUrl = NoUrl
    /\ redisClient = "null" /\ isReady = FALSE
    /\ services = EmptyMap
    /\ regUseRedis = FALSE
    /\ regReady = FALSE
    /\ regHash = EmptyMap
    /\ regLast = NoCall
    /\ beat = [i \in RegIds |-> Nil]
    /\ NoQueue

\* part_001 lines 28-46: new ServiceRegistry(true) with REDIS_URL set; the
\* client connects in the background
InitRegistryRedis ==
    /\ InitLimiter
    /\ useRedis = FALSE /\ redisUrl = Url
    /\ redisClient = "null" /\ isReady = FALSE
    /\ services = EmptyMap
    /\ regUseRedis = TRUE
    /\ regReady \in BOOLEAN
    /\ regHash = EmptyMap
    /\ regLast = NoCall
    /\ beat = [i \in RegIds |-> Nil]
    /\ NoQueue

\* part_001 lines 51-65
Register(id) ==
    /\ IF RegOnRedis
       THEN regHash' = MapSet(regHash, id, now) /\ UNCHANGED services
       ELSE services' = MapSet(services, id, now) /\ UNCHANGED regHash
    /\ regLast' = [NoCall EXCEPT !.op = "register", !.id = id,
                                 !.result = TRUE]
    /\ beat' = [beat EXCEPT ![id] = now]
    /\ UNCHANGED <<now, limiter, queues, regUseRedis, regReady>>

\* part_001 lines 70-93
Heartbeat(id) ==
    /\ IF RegOnRedis
       THEN /\ regHash' = IF id \in DOMAIN regHash
                          THEN MapSet(regHash, id, now) ELSE regHash
            /\ regLast' = [NoCall EXCEPT !.op = "heartbeat", !.id = id,
                                         !.result = (id \in DOMAIN regHash)]
            /\ UNCHANGED services
       ELSE /\ services' = IF id \in DOMAIN services
                           THEN MapSet(services, id, now) ELSE services
            /\ regLast' = [NoCall EXCEPT !.op = "heartbeat", !.id = id,
                                         !.result = (id \in DOMAIN services)]
            /\ UNCHANGED regHash
    /\ beat' = [beat EXCEPT ![id] = IF @ # Nil THEN now ELSE Nil]
    /\ UNCHANGED <<now, limiter, queues, regUseRedis, regReady>>

\* part_001 lines 118-145
CleanupServices ==
    /\ IF RegOnRedis
       THEN LET old == {i \in DOMAIN regHash : Stale(now, regHash[i])}
            IN  /\ regHash' = MapDel(regHash, old)
                /\ regLast' = [NoCall EXCEPT !.op = "cleanup",
                                             !.removed = old]
                /\ UNCHANGED services
       ELSE LET old == {i \in DOMAIN services : Stale(now, services[i])}
            IN  /\ services' = MapDel(services, old)
                /\ regLast' = [NoCall EXCEPT !.op = "cleanup",
                                             !.removed = old]
                /\ UNCHANGED regHash
    /\ UNCHANGED <<now, limiter, queues, regUseRedis, regReady, beat>>

\* the registry's connection is established / lost
RegRedisUp ==
    /\ regUseRedis /\ ~regReady
    /\ regReady' = TRUE
    /\ regLast' = NoCall
    /\ UNCHANGED <<now, limiter, queues, services, regUseRedis, regHash, beat>>

RegRedisDown ==
    /\ regUseRedis /\ regReady
    /\ regReady' = FALSE
    /\ regLast' = NoCall
    /\ UNCHANGED <<now, limiter, queues, services, regUseRedis, regHash, beat>>

\* the clock advances; a service silent for more than StaleThreshold has
\* not kept up its heartbeats
RegTick ==
    /\ now + CleanupEveryMs <= MaxRegTicks * CleanupEveryMs
    /\ now' = now + CleanupEveryMs
    /\ beat' = [i \in RegIds |->
                 IF beat[i] # Nil /\ now' - beat[i] > StaleThreshold
                 THEN Nil ELSE beat[i]]
    /\ regLast' = NoCall
    /\ UNCHANGED <<limiter, queues, services, regUseRedis, regReady, regHash>>

NextRegistry ==
    \/ \E id \in RegIds : Register(id)
    \/ \E id \in RegIds : Heartbeat(id)
    \/ CleanupServices
    \/ RegTick

\* a registry without Redis
SpecRegistry == InitRegistry /\ [][NextRegistry]_vars

NextRegistryRedis ==
    \/ NextRegistry
    \/ RegRedisUp
    \/ RegRedisDown

\* a registry with Redis, any availability
SpecRegistryRedis == InitRegistryRedis /\ [][NextRegistryRedis]_vars

\* ---------------------------------------------------------------- queues
\* the handlers process() is called with
Handlers == {"h1", "h2"}

\* job data of the queue's type T: 0 stands for the values JavaScript takes
\* for false (0, '', null, false), 1 for all others
JobData == {0, 1}

\* queue/index.ts line 63: if (job)
Falsy(data) == data = 0

\* line 33: push
Push(q, job) == Append(q, job)

\* a shift that hands out the newest job
ShiftJobLast(q) == q[Len(q)]

\* line 62: shift
ShiftJob(q) == Head(q)
ShiftRest(q) == Tail(q)

\* line 110: lPush; line 145: rPop
LPush(q, job) == <<job>> \o q
RPopJob(q) == q[Len(q)]
RPopRest(q) == SubSeq(q, 1, Len(q) - 1)

\* the jobs being handled / the activations waiting for rPop
Handling == {c \in calls : c.stage = "handle"}
Popping == {c \in calls : c.stage = "pop"}

\* new InMemoryQueue(name), lines 20-30
InitQueue ==
    /\ InitLimiter
    /\ useRedis = FALSE /\ redisUrl = NoUrl
    /\ redisClient = "null" /\ isReady = FALSE
    /\ NoRegistry
    /\ NoQueue

\* createQueue(name, useRedis), lines 162-167: either class; a RedisQueue
\* connects in the background, lines 86-103
InitQueues ==
    /\ InitLimiter
    /\ useRedis = FALSE /\ redisUrl = Url
    /\ redisClient = "null" /\ isReady = FALSE
    /\ NoRegistry
    /\ qKind \in {"memory", "redis"}
    /\ qList = <<>>
    /\ processing = FALSE
    /\ handler = "null"
    /\ interval = FALSE
    /\ connected = FALSE
    /\ calls = {}
    /\ handled = <<>>
    /\ enq = 0
    /\ failedJobs = {}

\* lines 94-98: connect() resolves
QueueConnected ==
    /\ qKind = "redis" /\ ~connected
    /\ connected' = TRUE
    /\ UNCHANGED <<now, limiter, registry, qKind, qList, processing, handler,
                   interval, calls, handled, enq, failedJobs>>

\* lines 32-35 and 105-112; a RedisQueue that is not connected throws and
\* enqueues nothing
Enqueue(data) ==
    LET job == [id |-> enq + 1, data |-> data]
    IN  /\ enq < MaxJobs
        /\ qKind = "redis" => connected
        /\ qList' = IF qKind = "memory" THEN Push(qList, job)
                                        ELSE LPush(qList, job)
        /\ enq' = enq + 1
        /\ UNCHANGED <<now, limiter, registry, qKind, processing, handler,
                       interval, connected, calls, handled, failedJobs>>

\* process(handler) that also clears the processing flag
ProcessResets(h) ==
    /\ handler' = h
    /\ interval' = TRUE
    /\ processing' = FALSE
    /\ UNCHANGED <<now, limiter, registry, qKind, qList, connected, calls,
                   handled, enq, failedJobs>>

\* lines 37-45 and 114-122
Process(h) ==
    /\ handler' = h
    /\ interval' = TRUE
    /\ UNCHANGED <<now, limiter, registry, qKind, qList, processing,
                   connected, calls, handled, enq, failedJobs>>

\* lines 47-53 and 124-136
Shutdown ==
    /\ interval \/ connected
    /\ interval' = FALSE
    /\ connected' = FALSE
    /\ UNCHANGED <<now, limiter, registry, qKind, qList, processing, handler,
                   calls, handled, enq, failedJobs>>

\* lines 55-72: the timer fires and processNext passes its guard; a job
\* that is falsy is shifted out and not handled
ProcessNextMemory ==
    /\ qKind = "memory" /\ interval
    /\ ~(processing \/ Len(qList) = 0 \/ handler = "null")
    /\ LET job == ShiftJob(qList)
       IN  /\ qList' = ShiftRest(qList)
           /\ IF Falsy(job.data)
              THEN UNCHANGED <<processing, calls, handled>>
              ELSE /\ processing' = TRUE
                   /\ calls' = calls \cup {[stage |-> "handle",
                                            id |-> job.id, h |-> handler]}
                   /\ handled' = Append(handled, job.id)
    /\ UNCHANGED <<now, limiter, registry, qKind, handler, interval,
                   connected, enq, failedJobs>>

\* lines 138-145: the timer fires, processNext passes its guard and sends
\* rPop
ProcessNextRedis ==
    /\ qKind = "redis" /\ interval
    /\ ~(~connected \/ processing \/ handler = "null")
    /\ processing' = TRUE
    /\ calls' = calls \cup {[stage |-> "pop", id |-> 0, h |-> handler]}
    /\ UNCHANGED <<now, limiter, registry, qKind, qList, handler, interval,
                   connected, handled, enq, failedJobs>>

\* lines 145-155: rPop answers, with the oldest job or with null
PopAnswered(c) ==
    /\ c \in Popping
    /\ IF qList = <<>>
       THEN /\ calls' = calls \ {c}
            /\ processing' = FALSE
            /\ UNCHANGED <<qList, handled>>
       ELSE LET job == RPopJob(qList)
            IN  /\ qList' = RPopRest(qList)
                /\ calls' = (calls \ {c}) \cup
                              {[stage |-> "handle", id |-> job.id,
                                h |-> handler]}
                /\ handled' = Append(handled, job.id)
                /\ UNCHANGED processing
    /\ UNCHANGED <<now, limiter, registry, qKind, handler, interval,
                   connected, enq, failedJobs>>

\* lines 145 and 151-155: rPop is rejected
PopFails(c) ==
    /\ c \in Popping
    /\ calls' = calls \ {c}
    /\ processing' = FALSE
    /\ UNCHANGED <<now, limiter, registry, qKind, qList, handler, interval,
                   connected, handled, enq, failedJobs>>

\* lines 65 and 69-71, 149 and 153-155: the handler's promise resolves
HandlerDone(c) ==
    /\ c \in Handling
    /\ calls' = calls \ {c}
    /\ processing' = FALSE
    /\ UNCHANGED <<now, limiter, registry, qKind, qList, handler, interval,
                   connected, handled, enq, failedJobs>>

\* a failure of the handler after which the flag stays set
HandlerFailsStuck(c) ==
    /\ c \in Handling
    /\ calls' = calls \ {c}
    /\ failedJobs' = failedJobs \cup {c.id}
    /\ UNCHANGED <<now, limiter, registry, qKind, qList, processing, handler,
                   interval, connected, handled, enq>>

\* lines 65-71 and 149-155: the handler throws or its promise is rejected
HandlerFails(c) ==
    /\ c \in Handling
    /\ calls' = calls \ {c}
    /\ processing' = FALSE
    /\ failedJobs' = failedJobs \cup {c.id}
    /\ UNCHANGED <<now, limiter, registry, qKind, qList, handler, interval,
                   connected, handled, enq>>

\* an InMemoryQueue
NextQueue ==
    \/ \E d \in JobData : Enqueue(d)
    \/ \E h \in Handlers : Process(h)
    \/ Shutdown
    \/ ProcessNextMemory
    \/ \E c \in calls : HandlerDone(c)
    \/ \E c \in calls : HandlerFails(c)

SpecQueue == InitQueue /\ [][NextQueue]_vars

\* a queue of either class
NextQueues ==
    \/ NextQueue
    \/ QueueConnected
    \/ ProcessNextRedis
    \/ \E c \in calls : PopAnswered(c)
    \/ \E c \in calls : PopFails(c)

SpecQueues == InitQueues /\ [][NextQueues]_vars

\* an InMemoryQueue that is not shut down: the timer of line 39 keeps firing
\* and every handler returns or throws
HandlerEnds == \E c \in calls : HandlerDone(c) \/ HandlerFails(c)

NextQueueLive ==
    \/ \E d \in JobData : Enqueue(d)
    \/ \E h \in Handlers : Process(h)
    \/ ProcessNextMemory
    \/ HandlerEnds

SpecQueueLive ==
    /\ InitQueue
    /\ [][NextQueueLive]_vars
    /\ WF_vars(ProcessNextMemory)
    /\ WF_vars(HandlerEnds)

\* ------------------------------------------------------------ properties
\* an invocation for key k is waiting for Redis
InFlight(k) == \E s \in Slots : req[s].pc # "idle" /\ req[s].key = k

\* C1: on the local path, of the requests counted in a window of a key
\* exactly min(requests, max) are admitted, whatever the order in which the
\* overlapping invocations reach the local store; the (max+1)-th is the
\* first one rejected.
C1_LocalAdmitsMin ==
    /\ \A k \in Keys : winLocal[k].admits = Min(winLocal[k].reqs, max)
    /\ last.path = "local" => (last.admitted <=> last.ord <= max)

\* the (max+1)-th request of a window is rejected after a failed read while
\* another invocation for the same key is still waiting
C1_Witness ==
    /\ last.path = "local" /\ last.failed /\ ~last.admitted
    /\ last.ord = max + 1
    /\ winLocal[last.key].admits = max
    /\ InFlight(last.key)

\* C2: on the Redis path without failures, once no invocation for a key is
\* in flight, the stored count equals the number of requests admitted in the
\* window, and never more than max are admitted.
C2_SharedIncrementsLinearizable ==
    \A k \in Keys :
        /\ winRedis[k].admits <= max
        /\ (~InFlight(k) /\ k \in DOMAIN redis /\ winRedis[k].admits > 0
              /\ now <= winRedis[k].start + windowMs)
             => redis[k].val = winRedis[k].admits

\* C3: on the local path the i-th request of a window, i <= max, is admitted
\* and reports X-RateLimit-Remaining = max - i; a rejected request is one
\* whose remaining count is 0.
C3_RemainingCountsDown ==
    last.path = "local" =>
        /\ last.ord <= max =>
              /\ last.admitted
              /\ last.hdr.remaining = max - last.ord
              /\ last.hdr.limit = max
        /\ ~last.admitted => last.ord > max /\ Max(0, max - last.ord) = 0

\* the max-th request of a window with max > 1 reports 0
C3_Witness ==
    /\ redisClient = "null"
    /\ last.path = "local" /\ last.admitted
    /\ max > 1 /\ last.ord = max
    /\ last.hdr.remaining = 0

\* C4: on the local path the first request after the reset instant of a key
\* is admitted with remaining = max - 1 and reset = now + windowMs, whatever
\* the count of the expired record was.
C4_FirstAfterResetAdmitted ==
    (last.path = "local" /\ last.ord = 1) =>
        /\ last.admitted
        /\ last.hdr = Hdr(max, max - 1, last.now + windowMs)
        /\ inMemoryStore[last.key] = [count |-> 1,
                                      resetTime |-> last.now + windowMs]

\* the expired record had counted more than max requests
C4_Witness ==
    /\ redisClient = "null"
    /\ last.path = "local" /\ last.ord = 1
    /\ last.prev > max

\* C5: on the Redis path, from an empty store, the first request of a key
\* that arrives after windowMs has elapsed since its window began is admitted
\* with remaining = max - 1.
C5_SharedWindowResets ==
    (last.path = "redis" /\ last.ord = 1 /\ ~InFlight(last.key)) =>
        /\ last.admitted
        /\ last.hdr.remaining = max - 1

\* C6: on the Redis path a request that finds the reset instant of its key
\* absent or expired leaves count = 1 and reset instant = now + windowMs in
\* the store, both with a time-to-live of windowMs.
C6_SharedOpensWindow ==
    [][\A s \in Slots :
         (/\ req[s].pc = "awaitGet"
          /\ req'[s].pc # "awaitGet"
          /\ (req[s].stored = Nil \/ req[s].now > req[s].stored))
         => LET k == req[s].key
                t == req[s].now
            IN  /\ k \in DOMAIN redis' /\ ResetKey(k) \in DOMAIN redis'
                /\ redis'[k].val = 1
                /\ redis'[ResetKey(k)].val = t + windowMs
                /\ redis'[k].exp = now + windowMs
                /\ redis'[ResetKey(k)].exp = now + windowMs]_vars

C8_FallbackPerCall ==
    [][/\ redisClient' = redisClient
       /\ (issued' = issued + 1 /\ isReady)
            => \E s \in Slots : /\ req[s].pc = "idle"
                                /\ req'[s].pc = "awaitGet"
       /\ last'.path = "local"
            => \/ /\ last'.failed
                  /\ \E s \in Slots : /\ req[s].pc # "idle"
                                      /\ req'[s].pc = "idle"
                                      /\ req[s].key = last'.key
               \/ /\ ~last'.failed
                  /\ ~isReady
                  /\ issued' = issued + 1]_vars

\* a request that arrived after a fallback waits for Redis
C8_Witness ==
    \E s \in Slots : /\ req[s].pc = "awaitGet"
                     /\ req[s].afterFail
                     /\ inMemoryStore # EmptyMap

\* C9: when a Redis call of a request fails, after any part of its writes,
\* the request gets the decision of the local store, which counts it: it is
\* admitted exactly if the local count, this request included, is within
\* max.
C9_FailureDecidedLocally ==
    [][\A s \in Slots :
         (/\ req[s].pc # "idle"
          /\ req'[s].pc = "idle"
          /\ last'.path # "redis")
         => LET k == req[s].key
            IN  /\ last'.path = "local" /\ last'.failed /\ last'.key = k
                /\ k \in DOMAIN inMemoryStore'
                /\ \/ inMemoryStore'[k].count = 1
                   \/ /\ k \in DOMAIN inMemoryStore
                      /\ inMemoryStore'[k].count = inMemoryStore[k].count + 1
                /\ last'.admitted <=> inMemoryStore'[k].count <= max
                /\ last'.admitted => last'.hdr.limit = max]_vars

\* the local store decides a request whose write batch failed after the
\* count was written and given a time-to-live, the reset instant not yet
C9_Witness ==
    /\ last.path = "local" /\ last.failed
    /\ last.key \in DOMAIN redis
    /\ redis[last.key].exp # NoTTL
    /\ ResetKey(last.key) \in DOMAIN redis
    /\ redis[ResetKey(last.key)].exp = NoTTL

\* C10: the requests of one key admitted within one window, by Redis and by
\* the local store together, never number more than max.
C10_CombinedAtMostMax ==
    \A k \in Keys :
        (/\ winLocal[k].start # Nil /\ winRedis[k].start # Nil
         /\ winLocal[k].start = winRedis[k].start)
        => winLocal[k].admits + winRedis[k].admits <= max

\* the Map cut down to the record of key k
OnlyKey(store, k) == [x \in DOMAIN store \cap {k} |-> store[x]]

\* C11: on the local path a request for one key, its sweep included, leaves
\* the record of every other key whose window has not expired as it was, and
\* the decision for a key depends on no other key's record.
C11_LocalKeysIndependent ==
    [][/\ last'.path = "local" =>
            \A k \in DOMAIN inMemoryStore \ {last'.key} :
                now <= inMemoryStore[k].resetTime
                  => /\ k \in DOMAIN inMemoryStore'
                     /\ inMemoryStore'[k] = inMemoryStore[k]
       /\ \A k \in Keys :
            InMemoryRateLimit(inMemoryStore, k, windowMs, max, now).admitted
              = InMemoryRateLimit(OnlyKey(inMemoryStore, k), k, windowMs,
                                  max, now).admitted]_vars

\* a key is rejected while another key's window is open with a count within
\* max
C11_Witness ==
    /\ redisClient = "null"
    /\ last.path = "local" /\ ~last.admitted
    /\ \E k \in DOMAIN inMemoryStore \ {last.key} :
          /\ now <= inMemoryStore[k].resetTime
          /\ inMemoryStore[k].count <= max

\* C12: on the Redis path the writes of a request for one key change neither
\* the count entry nor the reset-instant entry of any other key the key
\* generator can return.
C12_SharedKeysIndependent ==
    [][\A s \in Slots :
         (req[s].pc = "awaitGet" /\ req'[s].pc = "awaitWrite")
         => \A k \in Keys \ {req[s].key} :
               /\ RGet(redis', k) = RGet(redis, k)
               /\ RGet(redis', ResetKey(k)) = RGet(redis, ResetKey(k))]_vars

\* C13: every request ends with exactly one call: next() when it is
\* admitted, the handler when it is rejected; never both, never twice.
C13_ExactlyOneOutcome ==
    last.path # "none" =>
        /\ last.nexts + last.handlers = 1
        /\ last.admitted <=> last.nexts = 1
        /\ ~last.admitted <=> last.handlers = 1

\* C14: an admitted request, on either path, reaches next() with
\* X-RateLimit-Limit = max, X-RateLimit-Remaining an integer >= 0 and
\* X-RateLimit-Reset set; a rejected request does not reach next().
C14_HeadersBeforeNext ==
    last.path # "none" =>
        /\ last.admitted =>
              /\ last.nexts = 1
              /\ last.hdr.limit = max
              /\ last.hdr.remaining \in Nat
              /\ last.hdr.reset \in Nat
        /\ ~last.admitted => last.nexts = 0

\* Redis admits the last request of a window, the local store having
\* decided a request before
C14_Witness ==
    /\ last.path = "redis" /\ last.admitted
    /\ last.hdr = Hdr(max, 0, last.now + windowMs)
    /\ inMemoryStore # EmptyMap

\* C15: every request is eventually admitted or rejected, also when a call
\* to Redis is never answered.
C15_EveryRequestDecided ==
    \A s \in Slots : (req[s].pc # "idle") ~> (req[s].pc = "idle")

\* C16: on the local path every request of a window, admitted or rejected,
\* leaves the record's resetTime at the time of the window's first request
\* plus windowMs, and every admitted one reports that instant as
\* X-RateLimit-Reset.
C16_LocalResetFixed ==
    last.path = "local" =>
        LET resetAt == winLocal[last.key].start + windowMs
        IN  /\ last.key \in DOMAIN inMemoryStore
            /\ inMemoryStore[last.key].resetTime = resetAt
            /\ last.admitted => last.hdr.reset = resetAt

\* a request admitted later in its window than the window's first request
C16_Witness ==
    /\ redisClient = "null"
    /\ last.path = "local" /\ last.admitted
    /\ last.ord > 1
    /\ last.now > winLocal[last.key].start
    /\ last.hdr.reset = winLocal[last.key].start + windowMs

\* C17: on the Redis path the X-RateLimit-Reset of an admitted request is
\* the reset instant stored for its key after the request, and is not
\* earlier than the time of the request.
C17_SharedResetIsExpiry ==
    (last.path = "redis" /\ last.admitted) =>
        /\ last.hdr.reset >= last.now
        /\ RGet(redis, ResetKey(last.key)) = last.hdr.reset

\* C18: a request arriving at now = resetTime of its key's record, or later,
\* is counted in a fresh window: admitted, count = 1, remaining = max - 1.
C18_BoundaryOpensWindow ==
    [][(/\ last'.path = "local"
        /\ last'.key \in DOMAIN inMemoryStore
        /\ now >= inMemoryStore[last'.key].resetTime)
       => /\ last'.admitted
          /\ last'.hdr.remaining = max - 1
          /\ inMemoryStore'[last'.key].count = 1]_vars

\* C19: once no request is in flight, every entry of the Redis store has a
\* time-to-live.
C19_SharedEntriesExpire ==
    (\A s \in Slots : req[s].pc = "idle")
       => \A k \in DOMAIN redis : redis[k].exp # NoTTL

\* C20: the requests of another limiter of the process change nothing a
\* limiter observes: it decides and reports as if it alone used its store.
C20_StorePerInstance ==
    last.path = "local" =>
        /\ last.admitted = last.refAdmitted
        /\ last.hdr = last.refHdr
        /\ inMemoryStore[last.key] = refStore[last.key]

\* C21: a limiter asked for the shared store without REDIS_URL being set
\* does not exist: no request is ever decided by it.
C21_NoUrlIsConfigurationError ==
    (useRedis /\ redisUrl = NoUrl) => last.path = "none"

\* C22: the empty key is never a key of the local Map or of the Redis
\* store, and no request is decided under it.
C22_EmptyKeyReplaced ==
    /\ EmptyKey \notin DOMAIN inMemoryStore
    /\ EmptyKey \notin DOMAIN redis
    /\ last.path # "none" => last.key # EmptyKey

\* C23: right after a request decided by the local path at time now the Map
\* holds no record with resetTime < now, whichever keys were used before.
C23_NoExpiredRecordLeft ==
    last.path = "local" =>
        \A k \in DOMAIN inMemoryStore : inMemoryStore[k].resetTime >= now

\* a request for one key has removed the expired record of another key
C23_Witness ==
    /\ redisClient = "null"
    /\ last.path = "local"
    /\ \E k \in Keys \ {last.key} :
          /\ winLocal[k].start # Nil
          /\ winLocal[k].start + windowMs < now
          /\ k \notin DOMAIN inMemoryStore

\* C24: without Redis a cleanup removes exactly the services whose last
\* heartbeat is more than StaleThreshold old; a service that is registered
\* and never lets more than StaleThreshold pass between its heartbeats is
\* never removed and its heartbeats return true; a heartbeat for an id that
\* is not registered returns false and creates nothing.
C24_CleanupRemovesStaleOnly ==
    [][/\ regLast'.op = "cleanup" =>
            /\ \A i \in DOMAIN services :
                  i \in DOMAIN services'
                    <=> now - services[i] <= StaleThreshold
            /\ \A i \in DOMAIN services' :
                  i \in DOMAIN services /\ services'[i] = services[i]
       /\ \A i \in RegIds :
            beat'[i] # Nil =>
                i \in DOMAIN services' /\ services'[i] = beat'[i]
       /\ \A i \in RegIds :
            (regLast'.op = "heartbeat" /\ regLast'.id = i)
              => /\ regLast'.result <=> i \in DOMAIN services
                 /\ beat[i] # Nil => regLast'.result
                 /\ i \notin DOMAIN services => services' = services]_vars

\* a cleanup removes a stale service and keeps one whose last heartbeat is
\* exactly StaleThreshold old
C24_Witness ==
    /\ ~regUseRedis
    /\ regLast.op = "cleanup" /\ regLast.removed # {}
    /\ \E i \in DOMAIN services :
          /\ now - services[i] = StaleThreshold
          /\ beat[i] = services[i]

\* C25: with Redis enabled a service that was registered and keeps up its
\* heartbeats is among the services getServices returns, and its heartbeats
\* return true, however the readiness of the client changes between calls.
C25_RegisteredStaysVisible ==
    \A i \in RegIds :
        beat[i] # Nil =>
            /\ i \in GetServices
            /\ (regLast.op = "heartbeat" /\ regLast.id = i) => regLast.result

\* C26: an InMemoryQueue hands its jobs to the handler in the order in
\* which they were enqueued, and no job twice.
C26_QueueFifo ==
    qKind = "memory" =>
        \A i, j \in 1..Len(handled) : i < j => handled[i] < handled[j]

\* a second job is being handled while a third waits, a handler call having
\* ended before
C26_Witness ==
    /\ qKind = "memory"
    /\ Len(handled) >= 2
    /\ Handling # {}
    /\ qList # <<>>

\* C27: a queue of either class has at most one activation of processNext
\* under way and at most one job with its handler, also after process() is
\* called again; while a job is being handled nothing is dequeued.
C27_OneHandlerAtATime ==
    [][/\ Cardinality(calls') <= 1
       /\ calls' # {} => processing'
       /\ Handling # {} => Len(qList') >= Len(qList)]_vars

\* a RedisQueue whose timer is armed with a new handler while a job is with
\* the old one and another job waits
C27_Witness ==
    /\ qKind = "redis"
    /\ interval /\ connected /\ qList # <<>>
    /\ \E c \in Handling : c.h # handler

\* C28: on an InMemoryQueue with a handler registered, every enqueued job,
\* whatever its value, is eventually handed to the handler, given that the
\* timer keeps firing and the handlers terminate.
C28_EveryJobHandled ==
    \A j \in 1..MaxJobs :
        (enq >= j /\ interval) ~> (\E i \in 1..Len(handled) : handled[i] = j)

\* C29: when a handler fails, the processing flag is cleared, the failed job
\* is not put back and is never handed over again, and the jobs behind it
\* stay in the queue for the next ticks.
C29_FailureClearsFlag ==
    [][/\ failedJobs' # failedJobs =>
              /\ ~processing'
              /\ qList' = qList
       /\ \A id \in failedJobs' :
              /\ \A i \in 1..Len(qList') : qList'[i].id # id
              /\ Cardinality({i \in 1..Len(handled') : handled'[i] = id}) = 1
              /\ \A c \in calls' : c.id # id]_vars

\* a job is with the handler after an earlier job's handler failed
C29_Witness ==
    \E c \in Handling : \E id \in failedJobs : id < c.id

\* C30: the 'window expired' branch of the local limiter (line 154) is never
\* taken: whatever key a request is for, the record the sweep leaves for it
\* has not expired.
C30_ExpiredBranchDead ==
    LET swept == Sweep(inMemoryStore, now)
    IN  \A k \in DOMAIN swept : ~WindowExpired(now, swept[k])

\* a request found the expired record of its own key and was answered by the
\* branch of line 141, the sweep having deleted the record
C30_Witness ==
    /\ redisClient = "null"
    /\ last.path = "local" /\ last.now = now
    /\ last.prev >= 1
    /\ last.key \in DOMAIN inMemoryStore
    /\ inMemoryStore[last.key] = FirstRecord(now, windowMs)

====
